---- MODULE Spec2Model ----
(***************************************************************************)
(* Model of the UDP echo server of src/server.c: main() as a sequential    *)
(* program whose steps are its system calls, together with the operating   *)
(* system objects it acts on (the socket with its receive queue, the epoll *)
(* registration, the descriptors) and the peers that send datagrams.       *)
(***************************************************************************)
EXTENDS Integers, Sequences, FiniteSets, TLC

(***************************************************************************)
(* Bounds of the model.                                                    *)
(***************************************************************************)
\* longest datagram payload a peer sends
MaxLen == 2
\* number of datagrams that reach the socket in one run
MaxArrivals == 2

(***************************************************************************)
(* Program constants and the values the environment hands to the program.  *)
(***************************************************************************)
MAX_BUFSIZE == 1472
\* addresses of the peers (source address/port of a datagram)
Peers == {"p1", "p2"}
\* sizeof(struct sockaddr), the value of insaddrlen
SockaddrLen == 16
\* descriptors returned by socket() and epoll_create1(): 0..2 are taken
SockFdNo == 3
EpFdNo == 4
\* the content of a local variable that was never assigned: main() declares
\* its locals without initialisers
Uninit == "uninit"
UninitInt == -9
\* errno values of a failed call that the program tells apart
Transient == {"EINTR", "EAGAIN"}
Fatal == "EOTHER"

\* The program never inspects the bytes it moves, so the payload of a datagram
\* is modelled by bytes that are all distinct: byte k of the id-th datagram.
Payload(id, n) == [k \in 1..n |-> <<id, k>>]

Min(a, b) == IF a < b THEN a ELSE b

\* the first n elements of s
Take(s, n) == SubSeq(s, 1, Min(n, Len(s)))
\* s without its first n elements
Drop(s, n) == SubSeq(s, Min(n, Len(s)) + 1, Len(s))

\* reading a local variable: an unassigned one yields any value of its type
Rd(v, type) == IF v = Uninit THEN type ELSE {v}
RdInt(v, type) == IF v = UninitInt THEN type ELSE {v}

VARIABLES
    pc,         \* the statement main() executes next
    ret,        \* main: ret
    exitcode,   \* the status main() returned, "none" while it runs
    epfd,       \* main: epfd
    sockfd,     \* main: sockfd
    heap,       \* the malloc()ed buffer: "none", "live" or "freed"
    created,    \* descriptors that socket()/epoll_create1() have returned
    closes,     \* number of close() calls made on each descriptor number, -1 too
    frees,      \* number of free() calls made on the buffer
    sock,       \* the socket: its flags, whether bound, its receive queue
    interest,   \* the epoll registration of the socket: armed event, or "none"
    ev,         \* main: ev.events without EPOLLONESHOT
    events,     \* main: events.events as filled in by epoll_wait
    buf,        \* bytes of the buffer written so far
    bufptr,     \* main: bufptr as an offset from buf
    datasize,   \* main: datasize
    insaddr,    \* main: insaddr
    insaddrlen, \* main: insaddrlen
    last,       \* the last call made: its name, "ok" or errno, bytes moved
    arrived,    \* number of datagrams that have reached the socket
    cur,        \* the datagram received last: its id, sender and payload
    recvLog,    \* datagrams received by recvfrom, in order
    acc,        \* bytes accepted by sendto since the last receive
    dests,      \* destinations of the sendto attempts since the last receive
    echoLog     \* echoes completed by a successful sendto, in order

progvars == <<pc, ret, exitcode, epfd, sockfd, ev, events, buf, bufptr,
              datasize, insaddr, insaddrlen>>
osvars == <<heap, created, closes, frees, sock, interest>>
ghostvars == <<last, arrived, cur, recvLog, acc, dests, echoLog>>
vars == <<progvars, osvars, ghostvars>>

\* variables of the echo state machine that setup and teardown leave alone
loopvars == <<ev, events, buf, bufptr, datasize, insaddr, insaddrlen,
              cur, recvLog, acc, dests, echoLog>>

NoDatagram == [id |-> 0, peer |-> "none", data |-> <<>>]

Init ==
    /\ pc = "malloc"
    /\ ret = Uninit
    /\ exitcode = "none"
    /\ epfd = UninitInt
    /\ sockfd = UninitInt
    /\ heap = "none"
    /\ created = {}
    /\ closes = [fd \in -1..EpFdNo |-> 0]
    /\ frees = 0
    /\ sock = [nonblock |-> FALSE, reuseport |-> FALSE, bound |-> FALSE,
               queue |-> <<>>]
    /\ interest = "none"
    /\ ev = Uninit
    /\ events = {}
    /\ buf = <<>>
    /\ bufptr = UninitInt
    /\ datasize = UninitInt
    /\ insaddr = Uninit
    /\ insaddrlen = UninitInt
    /\ last = <<"start", "ok", 0>>
    /\ arrived = 0
    /\ cur = NoDatagram
    /\ recvLog = <<>>
    /\ acc = <<>>
    /\ dests = {}
    /\ echoLog = <<>>

(***************************************************************************)
(* ON_ERROR_PERROR_GOTO(out, cond, func, ret, EXIT_FAILURE): when cond is  *)
(* false, ret becomes EXIT_FAILURE and control goes to out; otherwise      *)
(* control goes on to the next statement.                                  *)
(***************************************************************************)
\* the macro without its goto: ret is set and control goes on
ON_ERROR_PERROR_NoGoto(cond, next) ==
    /\ pc' = next
    /\ ret' = IF cond THEN ret ELSE "EXIT_FAILURE"

\* the macro without its assignment to ret
ON_ERROR_PERROR_NoRet(cond, next) ==
    /\ pc' = IF cond THEN next ELSE "out"
    /\ ret' = ret

ON_ERROR_PERROR_GOTO(cond, next) ==
    IF cond
    THEN /\ pc' = next
         /\ ret' = ret
    ELSE /\ pc' = "out"
         /\ ret' = "EXIT_FAILURE"

(***************************************************************************)
(* Setup.                                                                  *)
(***************************************************************************)
\* line 104: epfd = -1
EpfdInit == -1

\* lines 104-111: epfd = -1; ret = EXIT_SUCCESS; buf = malloc(MAX_BUFSIZE)
Malloc ==
    /\ pc = "malloc"
    /\ epfd' = EpfdInit
    /\ \E ok \in BOOLEAN :
          IF ok
          THEN /\ heap' = "live"
               /\ ret' = "EXIT_SUCCESS"
               /\ pc' = "socket"
               /\ exitcode' = exitcode
               /\ last' = <<"malloc", "ok", 0>>
          ELSE /\ heap' = heap
               /\ ret' = "EXIT_SUCCESS"
               /\ pc' = "exit"
               /\ exitcode' = "EXIT_FAILURE"
               /\ last' = <<"malloc", Fatal, 0>>
    /\ UNCHANGED <<sockfd, created, closes, frees, sock, interest, arrived>>
    /\ UNCHANGED loopvars

\* lines 116-117: sockfd = socket(AF_INET, SOCK_DGRAM, 0)
Socket ==
    /\ pc = "socket"
    /\ \E ok \in BOOLEAN :
          /\ sockfd' = IF ok THEN SockFdNo ELSE -1
          /\ created' = IF ok THEN created \cup {SockFdNo} ELSE created
          /\ last' = <<"socket", IF ok THEN "ok" ELSE Fatal, 0>>
          /\ ON_ERROR_PERROR_GOTO(sockfd' >= 0, "set_reuseport")
    /\ UNCHANGED <<exitcode, epfd, heap, closes, frees, sock, interest, arrived>>
    /\ UNCHANGED loopvars

\* the function doing what its name says: SO_REUSEPORT, not O_NONBLOCK
set_reuseport_as_named(ok) ==
    sock' = IF ok THEN [sock EXCEPT !.reuseport = TRUE] ELSE sock

\* lines 76-87: despite its name, sets O_NONBLOCK with fcntl
set_reuseport(ok) ==
    sock' = IF ok THEN [sock EXCEPT !.nonblock = TRUE] ELSE sock

\* lines 65-71: despite its name, sets SO_REUSEPORT with setsockopt
set_nonblock(ok) ==
    sock' = IF ok THEN [sock EXCEPT !.reuseport = TRUE] ELSE sock

\* lines 122-123: rc = set_reuseport(sockfd)
SetReuseport ==
    /\ pc = "set_reuseport"
    /\ \E ok \in BOOLEAN :
          /\ set_reuseport(ok)
          /\ last' = <<"set_reuseport", IF ok THEN "ok" ELSE Fatal, 0>>
          /\ ON_ERROR_PERROR_GOTO(ok, "bind")
    /\ UNCHANGED <<exitcode, epfd, sockfd, heap, created, closes, frees,
                   interest, arrived>>
    /\ UNCHANGED loopvars

\* lines 125-134: rc = bind(sockfd, 127.0.0.1:5123)
Bind ==
    /\ pc = "bind"
    /\ \E ok \in BOOLEAN :
          /\ sock' = IF ok THEN [sock EXCEPT !.bound = TRUE] ELSE sock
          /\ last' = <<"bind", IF ok THEN "ok" ELSE Fatal, 0>>
          /\ ON_ERROR_PERROR_GOTO(ok, "set_nonblock")
    /\ UNCHANGED <<exitcode, epfd, sockfd, heap, created, closes, frees,
                   interest, arrived>>
    /\ UNCHANGED loopvars

\* lines 136-137: rc = set_nonblock(sockfd)
SetNonblock ==
    /\ pc = "set_nonblock"
    /\ \E ok \in BOOLEAN :
          /\ set_nonblock(ok)
          /\ last' = <<"set_nonblock", IF ok THEN "ok" ELSE Fatal, 0>>
          /\ ON_ERROR_PERROR_GOTO(ok, "epoll_create1")
    /\ UNCHANGED <<exitcode, epfd, sockfd, heap, created, closes, frees,
                   interest, arrived>>
    /\ UNCHANGED loopvars

\* lines 142-143: epfd = epoll_create1(0)
EpollCreate ==
    /\ pc = "epoll_create1"
    /\ \E ok \in BOOLEAN :
          /\ epfd' = IF ok THEN EpFdNo ELSE -1
          /\ created' = IF ok THEN created \cup {EpFdNo} ELSE created
          /\ last' = <<"epoll_create1", IF ok THEN "ok" ELSE Fatal, 0>>
          /\ ON_ERROR_PERROR_GOTO(epfd' >= 0, "epoll_ctl_add")
    /\ UNCHANGED <<exitcode, sockfd, heap, closes, frees, sock, interest,
                   arrived>>
    /\ UNCHANGED loopvars

\* lines 152-154: ev.events = EPOLLIN | EPOLLONESHOT; epoll_ctl(EPOLL_CTL_ADD)
EpollCtlAdd ==
    /\ pc = "epoll_ctl_add"
    /\ ev' = "EPOLLIN"
    /\ \E ok \in BOOLEAN :
          /\ interest' = IF ok THEN ev' ELSE interest
          /\ last' = <<"epoll_ctl_add", IF ok THEN "ok" ELSE Fatal, 0>>
          /\ ON_ERROR_PERROR_GOTO(ok, "epoll_wait")
    /\ UNCHANGED <<exitcode, epfd, sockfd, heap, created, closes, frees, sock,
                   arrived>>
    /\ UNCHANGED <<events, buf, bufptr, datasize, insaddr, insaddrlen,
                   cur, recvLog, acc, dests, echoLog>>

(***************************************************************************)
(* Teardown, lines 234-240: close(epfd) and close(sockfd) when they are    *)
(* not negative, free(buf), return ret.                                    *)
(***************************************************************************)
\* closing whatever the variable holds, without the test
ShouldCloseAlways(fd) == TRUE
\* lines 235, 237: if (epfd >= 0), if (sockfd >= 0)
ShouldClose(fd) == fd >= 0

\* lines 236, 238: close(fd) under its test
Close(c, fd) == IF ShouldClose(fd) THEN [c EXCEPT ![fd] = @ + 1] ELSE c

Teardown ==
    /\ pc = "out"
    /\ \E e \in RdInt(epfd, {-1, EpFdNo}), s \in RdInt(sockfd, {-1, SockFdNo}) :
          /\ closes' = Close(Close(closes, e), s)
          /\ interest' = IF ShouldClose(e) /\ e = EpFdNo THEN "none" ELSE interest
    /\ frees' = frees + 1
    /\ heap' = "freed"
    /\ exitcode' = ret
    /\ pc' = "exit"
    /\ last' = <<"close", "ok", 0>>
    /\ UNCHANGED <<ret, epfd, sockfd, created, sock, arrived>>
    /\ UNCHANGED loopvars

(***************************************************************************)
(* The peers: a datagram from any peer reaches the bound socket and is     *)
(* queued in its receive buffer.                                           *)
(***************************************************************************)
ArriveFrom(senders, lengths) ==
    /\ sock.bound
    /\ pc # "exit"
    /\ arrived < MaxArrivals
    /\ \E p \in senders, n \in lengths :
          sock' = [sock EXCEPT !.queue =
                      Append(@, [id |-> arrived + 1, peer |-> p,
                                 data |-> Payload(arrived + 1, n)])]
    /\ arrived' = arrived + 1
    /\ UNCHANGED <<progvars, heap, created, closes, frees, interest>>
    /\ UNCHANGED <<last, cur, recvLog, acc, dests, echoLog>>

\* datagrams of every length up to MaxLen from every peer
Arrive == ArriveFrom(Peers, 0..MaxLen)

\* datagrams one byte longer than the buffer, and short ones, from one peer
ArriveBig == ArriveFrom({"p1"}, {MaxLen, MAX_BUFSIZE + 1})

(***************************************************************************)
(* The event loop, lines 159-233.                                          *)
(***************************************************************************)
\* a failed epoll_wait never retried
WaitRetryNever(errno) == FALSE
\* line 162: errno != EINTR makes a failed epoll_wait fatal
WaitRetry(errno) == errno = "EINTR"
\* the test without errno != EAGAIN
RecvRetryIntrOnly(errno) == errno = "EINTR"
\* line 182: errno != EINTR && errno != EAGAIN makes a failed recvfrom fatal
RecvRetry(errno) == errno = "EINTR" \/ errno = "EAGAIN"
\* every failure of sendto taken as one to retry
SendRetryAll(errno) == TRUE
\* line 213: errno != EINTR && errno != EAGAIN makes a failed sendto fatal
SendRetry(errno) == errno = "EINTR" \/ errno = "EAGAIN"

\* line 193: the event to arm after a receive that failed transiently
NextEvAfterRecvFail == "EPOLLIN"
\* arming for reading again after a successful receive
NextEvAfterRecvIn == "EPOLLIN"
\* line 202: the event to arm after a successful receive
NextEvAfterRecv == "EPOLLOUT"
\* recvfrom called without the address argument: insaddr keeps its content
RecvAddrKeep(d, old) == old
\* lines 179-180: recvfrom stores the source address of datagram d in insaddr
RecvAddr(d, old) == d.peer

\* the receive attempted on a writable event as well
AtRecvAnyEvent == pc = "io" /\ ("EPOLLIN" \in events \/ "EPOLLOUT" \in events)
\* going back to the wait right after the I/O
AfterIOWait == "epoll_wait"
\* lines 226-231: after the I/O of either branch comes the re-arm
AfterIO == "epoll_ctl_mod"

\* the events epoll_wait reports for a registration armed for event e
ReadyEvents(e) == {{e}}

\* line 160: epoll_wait returns one event; EPOLLONESHOT disarms the registration
WaitReady ==
    /\ pc = "epoll_wait"
    /\ interest # "none"
    /\ \E spurious \in BOOLEAN :
          \/ interest = "EPOLLOUT"
          \/ interest = "EPOLLIN" /\ (sock.queue # <<>> \/ spurious)
    /\ \E es \in ReadyEvents(interest) : events' = es
    /\ interest' = "none"
    /\ pc' = "io"
    /\ last' = <<"epoll_wait", "ok", 0>>
    /\ UNCHANGED <<ret, exitcode, epfd, sockfd, ev, buf, bufptr, datasize,
                   insaddr, insaddrlen>>
    /\ UNCHANGED <<heap, created, closes, frees, sock>>
    /\ UNCHANGED <<arrived, cur, recvLog, acc, dests, echoLog>>

\* lines 161-169: epoll_wait fails; EINTR retries the wait, the rest is fatal
WaitFail ==
    /\ pc = "epoll_wait"
    /\ \E errno \in {"EINTR", Fatal} :
          /\ last' = <<"epoll_wait", errno, 0>>
          /\ IF ~WaitRetry(errno)
             THEN ON_ERROR_PERROR_GOTO(FALSE, "epoll_wait")
             ELSE UNCHANGED <<pc, ret>>
    /\ UNCHANGED <<exitcode, epfd, sockfd, ev, events, buf, bufptr, datasize,
                   insaddr, insaddrlen>>
    /\ UNCHANGED osvars
    /\ UNCHANGED <<arrived, cur, recvLog, acc, dests, echoLog>>

\* a length argument one more than the size of the buffer
RecvLenOver == MAX_BUFSIZE + 1
\* line 179: the length argument of recvfrom
RecvLen == MAX_BUFSIZE

\* line 171: if (events.events & EPOLLIN)
AtRecv == pc = "io" /\ "EPOLLIN" \in events
\* line 204: else if (events.events & EPOLLOUT)
AtSend == pc = "io" /\ "EPOLLIN" \notin events /\ "EPOLLOUT" \in events

\* lines 174-180, 194-203: recvfrom returns the datagram at the head of the queue
RecvOk ==
    /\ AtRecv
    /\ sock.queue # <<>>
    /\ LET d == Head(sock.queue)
           data == Take(d.data, RecvLen)
           nread == Len(data)
       IN  /\ insaddrlen' = SockaddrLen
           /\ insaddr' = RecvAddr(d, insaddr)
           /\ buf' = data \o Drop(buf, nread)
           /\ datasize' = nread
           /\ bufptr' = 0
           /\ ev' = NextEvAfterRecv
           /\ cur' = [d EXCEPT !.data = data]
           /\ recvLog' = Append(recvLog, cur')
    /\ sock' = [sock EXCEPT !.queue = Tail(@)]
    /\ acc' = <<>>
    /\ dests' = {}
    /\ pc' = AfterIO
    /\ last' = <<"recvfrom", "ok", datasize'>>
    /\ UNCHANGED <<ret, exitcode, epfd, sockfd, events>>
    /\ UNCHANGED <<heap, created, closes, frees, interest>>
    /\ UNCHANGED <<arrived, echoLog>>

\* lines 174-193: recvfrom fails; EINTR and EAGAIN re-arm for reading
RecvFail ==
    /\ AtRecv
    /\ insaddrlen' = SockaddrLen
    /\ \E errno \in Transient \cup {Fatal} :
          /\ last' = <<"recvfrom", errno, 0>>
          /\ IF ~RecvRetry(errno)
             THEN /\ ON_ERROR_PERROR_GOTO(FALSE, "epoll_ctl_mod")
                  /\ ev' = ev
             ELSE /\ ev' = NextEvAfterRecvFail
                  /\ pc' = AfterIO
                  /\ ret' = ret
    /\ UNCHANGED <<exitcode, epfd, sockfd, events, buf, bufptr, datasize,
                   insaddr>>
    /\ UNCHANGED osvars
    /\ UNCHANGED <<arrived, cur, recvLog, acc, dests, echoLog>>

\* the bytes offered when buf is passed to sendto in place of bufptr
OfferedFromStart(off, ds) == SubSeq(buf, 1, ds)

\* the bytes sendto(sockfd, bufptr, datasize, ...) is given
Offered(off, ds) == SubSeq(buf, off + 1, off + ds)

\* lines 222-225: the event to arm after a send attempt
\* the writable event is armed again whatever is left
NextEvAfterSendOut(ds) == "EPOLLOUT"
NextEvAfterSend(ds) == IF ds = 0 THEN "EPOLLIN" ELSE "EPOLLOUT"

\* the update without bufptr += nwritten
AdvanceNoCursor(off, ds, nwritten) == [bufptr |-> off, datasize |-> ds - nwritten]

\* lines 218-219: datasize -= nwritten; bufptr += nwritten
Advance(off, ds, nwritten) == [bufptr |-> off + nwritten, datasize |-> ds - nwritten]

\* the byte counts a sendto of ds bytes may accept: all of them, none, any
\* part of a short datagram, a multiple of chunk bytes of a long one
Accepted(ds, chunk) ==
    {w \in 0..ds : w = ds \/ w % chunk = 0 \/ ds <= MaxLen}

\* lines 210-225: sendto accepts nwritten of the datasize bytes offered
SendOkBy(chunk) ==
    /\ AtSend
    /\ \E ds \in RdInt(datasize, 0..MaxLen), off \in RdInt(bufptr, 0..MaxLen),
          dst \in Rd(insaddr, Peers), len \in RdInt(insaddrlen, {SockaddrLen}) :
          \E nwritten \in Accepted(ds, chunk) :
             LET a == Advance(off, ds, nwritten)
             IN  /\ datasize' = a.datasize
                 /\ bufptr' = a.bufptr
                 /\ ev' = NextEvAfterSend(datasize')
                 /\ acc' = acc \o Take(Offered(off, ds), nwritten)
                 /\ dests' = dests \cup {<<dst, len>>}
                 /\ echoLog' = IF datasize' = 0
                               THEN Append(echoLog, [id |-> cur.id, peer |-> dst,
                                                     data |-> acc'])
                               ELSE echoLog
                 /\ last' = <<"sendto", "ok", nwritten>>
    /\ pc' = AfterIO
    /\ UNCHANGED <<ret, exitcode, epfd, sockfd, events, buf, insaddr,
                   insaddrlen>>
    /\ UNCHANGED osvars
    /\ UNCHANGED <<arrived, cur, recvLog>>

\* any byte count from 0 to datasize may be accepted
SendOk == SendOkBy(1)

\* of a long datagram, sendto accepts whole blocks of 512 bytes, or the rest
SendOkBig == SendOkBy(512)

\* lines 210-225: sendto fails; EINTR and EAGAIN leave the datagram as it is
SendFail ==
    /\ AtSend
    /\ \E ds \in RdInt(datasize, 0..MaxLen), dst \in Rd(insaddr, Peers),
          len \in RdInt(insaddrlen, {SockaddrLen}) :
          /\ dests' = dests \cup {<<dst, len>>}
          /\ \E errno \in Transient \cup {Fatal} :
                /\ last' = <<"sendto", errno, 0>>
                /\ IF ~SendRetry(errno)
                   THEN /\ ON_ERROR_PERROR_GOTO(FALSE, "epoll_ctl_mod")
                        /\ ev' = ev
                   ELSE /\ ev' = NextEvAfterSend(ds)
                        /\ pc' = AfterIO
                        /\ ret' = ret
    /\ UNCHANGED <<exitcode, epfd, sockfd, events, buf, bufptr, datasize,
                   insaddr, insaddrlen>>
    /\ UNCHANGED osvars
    /\ UNCHANGED <<arrived, cur, recvLog, acc, echoLog>>

\* lines 231-232: epoll_ctl(EPOLL_CTL_MOD) arms the registration for ev
Rearm ==
    /\ pc = "epoll_ctl_mod"
    /\ \E ok \in BOOLEAN :
          /\ interest' = IF ok THEN ev ELSE interest
          /\ last' = <<"epoll_ctl_mod", IF ok THEN "ok" ELSE Fatal, 0>>
          /\ ON_ERROR_PERROR_GOTO(ok, "epoll_wait")
    /\ UNCHANGED <<exitcode, epfd, sockfd, ev, events, buf, bufptr, datasize,
                   insaddr, insaddrlen>>
    /\ UNCHANGED <<heap, created, closes, frees, sock>>
    /\ UNCHANGED <<arrived, cur, recvLog, acc, dests, echoLog>>

Next ==
    \/ Malloc
    \/ Socket
    \/ SetReuseport
    \/ Bind
    \/ SetNonblock
    \/ EpollCreate
    \/ EpollCtlAdd
    \/ Arrive
    \/ WaitReady
    \/ WaitFail
    \/ RecvOk
    \/ RecvFail
    \/ SendOk
    \/ SendFail
    \/ Rearm
    \/ Teardown

Spec == Init /\ [][Next]_vars

\* the same program with datagrams longer than the buffer reaching the socket
NextBig ==
    \/ Malloc
    \/ Socket
    \/ SetReuseport
    \/ Bind
    \/ SetNonblock
    \/ EpollCreate
    \/ EpollCtlAdd
    \/ ArriveBig
    \/ WaitReady
    \/ WaitFail
    \/ RecvOk
    \/ RecvFail
    \/ SendOkBig
    \/ SendFail
    \/ Rearm
    \/ Teardown

BigSpec == Init /\ [][NextBig]_vars

\* the values the variables take under Spec, where no datagram exceeds MaxLen
TypeOK ==
    /\ pc \in {"malloc", "socket", "set_reuseport", "bind", "set_nonblock",
               "epoll_create1", "epoll_ctl_add", "epoll_wait", "io",
               "epoll_ctl_mod", "out", "exit"}
    /\ datasize \in (0..MaxLen) \cup {UninitInt}
    /\ bufptr \in (0..MaxLen) \cup {UninitInt}
    /\ Len(buf) <= MaxLen

(***************************************************************************)
(* The specification under the assumptions of the liveness claims: the     *)
(* program keeps running, a wait on an armed registration returns, a       *)
(* receive of a queued datagram succeeds after finitely many transient     *)
(* failures, and a send accepts bytes after finitely many attempts that    *)
(* accept none.                                                            *)
(***************************************************************************)
SendProgress == SendOk /\ (last'[3] > 0 \/ datasize' = 0)

Fairness ==
    /\ WF_vars(SetNonblock)
    /\ WF_vars(EpollCreate)
    /\ WF_vars(EpollCtlAdd)
    /\ WF_vars(WaitReady)
    /\ WF_vars(RecvOk \/ RecvFail)
    /\ WF_vars(SendOk \/ SendFail)
    /\ WF_vars(Rearm)
    /\ SF_vars(RecvOk)
    /\ SF_vars(SendProgress)

FairSpec == Spec /\ Fairness

(***************************************************************************)
(* Notions the claims are stated with.                                     *)
(***************************************************************************)
\* the loop has ended by a fatal error (or never started)
Ended == pc \in {"out", "exit"}
\* the ids of the datagrams whose echo a successful send has completed
EchoedIds == {echoLog[j].id : j \in 1..Len(echoLog)}
\* datagram i of the receive log has been echoed to its sender, byte for byte
Echoed(i) ==
    /\ i <= Len(recvLog)
    /\ \E j \in 1..Len(echoLog) : echoLog[j] = recvLog[i]
\* a datagram has been received and bytes of it are still unsent
Unsent == recvLog # <<>> /\ acc # cur.data
\* the loop is about to wait
AtWait == pc = "epoll_wait"
\* the step is a call of recvfrom / of sendto
RecvStep == AtRecv /\ last'[1] = "recvfrom"
SendStep == AtSend /\ last'[1] = "sendto"

(***************************************************************************)
(* C1  Echo identity: every non-empty datagram the service receives is     *)
(* eventually echoed to its sender by sends whose accepted bytes,          *)
(* concatenated, are the datagram, unless a fatal error ends the loop.     *)
(***************************************************************************)
C1_EchoIdentity ==
    \A i \in 1..MaxArrivals :
        (Len(recvLog) >= i /\ Len(recvLog[i].data) > 0) ~> (Ended \/ Echoed(i))

\* a datagram of the longest length was echoed in full by more than one send
C1_Witness ==
    /\ echoLog # <<>>
    /\ Len(cur.data) = MaxLen
    /\ echoLog[Len(echoLog)] = cur
    /\ last = <<"sendto", "ok", 1>>

(***************************************************************************)
(* C2  Single-flight: recvfrom is never attempted while the service is in  *)
(* AWAIT_WRITE with unsent bytes, and no receive overwrites the buffer or  *)
(* datasize while bytes of the previous datagram are unsent.               *)
(***************************************************************************)
C2_SingleFlight ==
    /\ [](AtRecv => ~Unsent /\ ev = "EPOLLIN" /\ datasize \in {0, UninitInt})
    /\ [][(buf' # buf \/ (RecvStep /\ datasize' # datasize)) => ~Unsent]_vars

\* a second datagram is queued while bytes of the first are unsent
C2_Witness ==
    /\ AtWait
    /\ interest = "EPOLLOUT"
    /\ Unsent
    /\ sock.queue # <<>>

(***************************************************************************)
(* C3  Partial send: a send that accepts m of the datasize bytes advances  *)
(* the cursor by m and lowers datasize by m, what is then offered is the   *)
(* rest of what was offered, and the bytes accepted so far followed by the *)
(* bytes offered next are always the received payload.                     *)
(***************************************************************************)
C3_PartialSend ==
    /\ [][(SendStep /\ last'[2] = "ok")
            => /\ bufptr' = bufptr + last'[3]
               /\ datasize' = datasize - last'[3]
               /\ acc' = acc \o Take(Offered(bufptr, datasize), last'[3])
               /\ Offered(bufptr', datasize')
                    = Drop(Offered(bufptr, datasize), last'[3])]_vars
    /\ [](recvLog # <<>> => acc \o Offered(bufptr, datasize) = cur.data)

\* a send accepted one byte and left one unsent
C3_Witness ==
    /\ last = <<"sendto", "ok", 1>>
    /\ datasize = 1
    /\ bufptr = 1
    /\ pc = "epoll_ctl_mod"

\* a received datagram is awaiting its echo: no send has completed it
AwaitingEcho == recvLog # <<>> /\ cur.id \notin EchoedIds
\* the calls of the event loop
LoopCalls == {"epoll_wait", "recvfrom", "sendto", "epoll_ctl_mod"}

(***************************************************************************)
(* C4  Transient send failure: a sendto that fails with EAGAIN or EINTR    *)
(* while a datagram is pending leaves datasize, the cursor and the saved   *)
(* address unchanged, is not fatal, and has the watcher re-armed for       *)
(* writable events.                                                        *)
(***************************************************************************)
C4_TransientSend ==
    [][(SendStep /\ last'[2] \in Transient)
         => /\ datasize' = datasize
            /\ bufptr' = bufptr
            /\ insaddr' = insaddr
            /\ insaddrlen' = insaddrlen
            /\ pc' = "epoll_ctl_mod"
            /\ ret' = ret
            /\ ev' = "EPOLLOUT"]_vars

(***************************************************************************)
(* C5  Transient receive failure: a recvfrom that fails with EAGAIN or     *)
(* EINTR is not fatal, makes no datagram pending (buffer, datasize and     *)
(* cursor are as before), and has the watcher re-armed for readable events.*)
(***************************************************************************)
C5_TransientRecv ==
    [][(RecvStep /\ last'[2] \in Transient)
         => /\ datasize' = datasize
            /\ bufptr' = bufptr
            /\ buf' = buf
            /\ insaddr' = insaddr
            /\ recvLog' = recvLog
            /\ cur' = cur
            /\ sock' = sock
            /\ pc' = "epoll_ctl_mod"
            /\ ret' = ret
            /\ ev' = "EPOLLIN"]_vars

\* a receive failed with EAGAIN and the loop goes on to re-arm for reading
C5_Witness ==
    /\ last = <<"recvfrom", "EAGAIN", 0>>
    /\ pc = "epoll_ctl_mod"
    /\ ev = "EPOLLIN"
    /\ echoLog # <<>>

(***************************************************************************)
(* C6  Re-arm reflects state: whenever the loop is about to wait, the      *)
(* registered interest is readable exactly when no received datagram is    *)
(* awaiting its echo and writable exactly when one is; never both, never   *)
(* neither.                                                                *)
(***************************************************************************)
C6_RearmReflectsState ==
    AtWait => /\ interest \in {"EPOLLIN", "EPOLLOUT"}
              /\ (interest = "EPOLLIN") <=> ~AwaitingEcho
              /\ (interest = "EPOLLOUT") <=> AwaitingEcho

(***************************************************************************)
(* C7  Reply destination: every sendto is addressed to the source address  *)
(* and length saved by the most recent successful recvfrom, every          *)
(* completed echo went to the sender of its datagram, and no step other    *)
(* than a successful recvfrom changes the saved address.                   *)
(***************************************************************************)
C7_ReplyDestination ==
    /\ [](dests \subseteq {<<cur.peer, SockaddrLen>>})
    /\ [](\A j \in 1..Len(echoLog) :
            \E i \in 1..Len(recvLog) : /\ recvLog[i].id = echoLog[j].id
                                       /\ recvLog[i].peer = echoLog[j].peer)
    /\ [][(insaddr' # insaddr) => (RecvStep /\ last'[2] = "ok")]_vars
    /\ [][(insaddrlen' # insaddrlen) => RecvStep]_vars
    /\ [][(SendStep \/ pc \in {"epoll_wait", "epoll_ctl_mod"})
            => insaddr' = insaddr /\ insaddrlen' = insaddrlen]_vars

\* after a partial send, a send to the second peer failed transiently
C7_Witness ==
    /\ last = <<"sendto", "EAGAIN", 0>>
    /\ cur.peer = "p2"
    /\ dests = {<<"p2", SockaddrLen>>}
    /\ acc # <<>>
    /\ Unsent

(***************************************************************************)
(* C8  No loss across peers, in order: every datagram that reaches the     *)
(* socket is eventually received and echoed to its own sender unless a     *)
(* fatal error ends the loop, echoes complete in the order of arrival, and *)
(* no datagram is read while bytes of the previous one are unsent.         *)
(***************************************************************************)
C8_NoLossInOrder ==
    /\ \A i \in 1..MaxArrivals : (arrived >= i) ~> (Ended \/ Echoed(i))
    /\ [](\A j, k \in 1..Len(echoLog) : j < k => echoLog[j].id < echoLog[k].id)
    /\ [](AtRecv => ~Unsent)

(***************************************************************************)
(* C9  Steady-state fatal errors: a failure of epoll_wait other than       *)
(* EINTR, of recvfrom or sendto other than EINTR/EAGAIN, or of the re-arm  *)
(* takes control to teardown at once with the failure status, and no call  *)
(* of the loop is made after it.                                           *)
(***************************************************************************)
C9_FatalEndsLoop ==
    /\ []((last[1] \in LoopCalls /\ last[2] \notin Transient \cup {"ok"})
            => pc = "out" /\ ret = "EXIT_FAILURE")
    /\ [][Ended => /\ pc' \in {pc, "exit"}
                   /\ (last' = last \/ last'[1] = "close")
                   /\ UNCHANGED <<buf, bufptr, datasize, ev, events>>]_vars

\* the re-arm failed while bytes of a datagram were unsent
C9_Witness ==
    /\ pc = "out"
    /\ last = <<"epoll_ctl_mod", Fatal, 0>>
    /\ Unsent

(***************************************************************************)
(* C10  Teardown: no descriptor is closed more than once, none that was    *)
(* never created is closed, the buffer is freed at most once, and when the *)
(* program has ended every descriptor created is closed and the buffer, if *)
(* allocated, is freed.                                                    *)
(***************************************************************************)
C10_TeardownReleases ==
    /\ \A fd \in DOMAIN closes : closes[fd] <= (IF fd \in created THEN 1 ELSE 0)
    /\ frees <= (IF heap = "none" THEN 0 ELSE 1)
    /\ pc = "exit" => /\ \A fd \in created : closes[fd] = 1
                      /\ heap # "live"
                      /\ heap = "freed" => frees = 1

\* the program ended after epoll_create1 failed: only the socket was closed
C10_Witness ==
    /\ pc = "exit"
    /\ created = {SockFdNo}
    /\ closes[SockFdNo] = 1
    /\ closes[EpFdNo] = 0
    /\ frees = 1

\* the setup calls that follow the allocation of the buffer, in program order
SetupCalls == {"socket", "set_reuseport", "bind", "set_nonblock",
               "epoll_create1", "epoll_ctl_add"}
\* the statements of the event loop
LoopPcs == {"epoll_wait", "io", "epoll_ctl_mod"}

(***************************************************************************)
(* C11  Setup failure aborts startup: when socket(), either configuration  *)
(* call, bind(), epoll_create1() or the first epoll_ctl() fails, control   *)
(* goes to teardown at once with the failure status, the loop was never    *)
(* entered (nothing waited for, received or sent), and from there only the *)
(* teardown runs and the program returns the failure status.               *)
(***************************************************************************)
C11_SetupFailureAborts ==
    /\ []((last[1] \in SetupCalls /\ last[2] # "ok")
            => /\ pc = "out"
               /\ ret = "EXIT_FAILURE"
               /\ events = {} /\ recvLog = <<>> /\ dests = {} /\ echoLog = <<>>
               /\ interest = "none")
    /\ [][(pc = "out" /\ last[1] \in SetupCalls)
            => (pc' = "out" /\ last' = last)
               \/ (pc' = "exit" /\ last'[1] = "close"
                   /\ exitcode' = "EXIT_FAILURE"
                   /\ UNCHANGED <<events, recvLog, dests, echoLog>>)]_vars

\* bind failed after the socket was made non-blocking; a later step never ran
C11_Witness ==
    /\ pc = "out"
    /\ last = <<"bind", Fatal, 0>>
    /\ sock.nonblock
    /\ ~sock.reuseport

(***************************************************************************)
(* C12  Exit status: the program never returns the success code; whenever  *)
(* it has returned, the status is the failure code, and control leaves the *)
(* loop or the setup for teardown only with ret set to the failure code.   *)
(***************************************************************************)
C12_ExitStatus ==
    /\ exitcode # "EXIT_SUCCESS"
    /\ pc = "exit" <=> exitcode = "EXIT_FAILURE"
    /\ pc = "out" => ret = "EXIT_FAILURE" /\ last[2] \notin Transient \cup {"ok"}

\* the program returned after a fatal error of sendto
C12_Witness ==
    /\ pc = "exit"
    /\ exitcode = "EXIT_FAILURE"
    /\ dests # {}
    /\ frees = 1

(***************************************************************************)
(* C13  One I/O operation per cycle: a successful return of epoll_wait     *)
(* selects exactly one of the two branches, the step that follows it is    *)
(* the one recvfrom or sendto of that branch, the step after that is the   *)
(* one epoll_ctl(EPOLL_CTL_MOD), and only then does the next wait begin.   *)
(***************************************************************************)
C13_OneIOPerCycle ==
    /\ [](pc = "io" => (AtRecv /\ ~AtSend) \/ (AtSend /\ ~AtRecv))
    /\ [][(pc = "epoll_wait" /\ pc' # pc)
            => /\ last'[1] = "epoll_wait"
               /\ (last'[2] = "ok") <=> (pc' = "io")]_vars
    /\ [][(pc = "io" /\ pc' # pc)
            => /\ AtRecv => last'[1] = "recvfrom"
               /\ AtSend => last'[1] = "sendto"
               /\ pc' \in {"epoll_ctl_mod", "out"}]_vars
    /\ [][(pc = "epoll_ctl_mod" /\ pc' # pc)
            => /\ last'[1] = "epoll_ctl_mod"
               /\ pc' \in {"epoll_wait", "out"}]_vars
    /\ [][(pc' = "epoll_wait" /\ pc # pc')
            => pc \in {"epoll_ctl_mod", "epoll_ctl_add"}]_vars

\* a cycle whose one I/O was a send is complete: the loop waits again
C13_Witness ==
    /\ pc = "epoll_wait"
    /\ last = <<"epoll_ctl_mod", "ok", 0>>
    /\ dests # {}
    /\ Unsent

(***************************************************************************)
(* C14  Interrupted wait: an epoll_wait that fails with EINTR is followed  *)
(* by the wait again; the step makes no receive, send or re-arm and leaves *)
(* datasize, the cursor, the saved address, the buffer, ev and the         *)
(* registered interest as they were.                                       *)
(***************************************************************************)
C14_InterruptedWait ==
    [][(pc = "epoll_wait" /\ last'[1] = "epoll_wait" /\ last'[2] = "EINTR")
         => /\ pc' = "epoll_wait"
            /\ UNCHANGED <<datasize, bufptr, insaddr, insaddrlen, buf, ev,
                           events, interest, ret, exitcode>>
            /\ UNCHANGED <<recvLog, acc, dests, echoLog>>]_vars

\* the wait was interrupted while bytes of a datagram were unsent
C14_Witness ==
    /\ pc = "epoll_wait"
    /\ last = <<"epoll_wait", "EINTR", 0>>
    /\ interest = "EPOLLOUT"
    /\ Unsent

(***************************************************************************)
(* C15  Never waiting on a disarmed watcher: whenever epoll_wait is        *)
(* called, the one-shot registration of the socket is armed, for readable  *)
(* or for writable events, with the event the loop last computed; the wait *)
(* is reached only from a successful epoll_ctl.                            *)
(***************************************************************************)
C15_WaitIsArmed ==
    /\ [](pc = "epoll_wait" => interest \in {"EPOLLIN", "EPOLLOUT"} /\ interest = ev)
    /\ [][(pc' = "epoll_wait" /\ pc # "epoll_wait")
            => last'[1] \in {"epoll_ctl_add", "epoll_ctl_mod"} /\ last'[2] = "ok"]_vars

\* the registration that fired was armed again, for reading, before the wait
C15_Witness ==
    /\ pc = "epoll_wait"
    /\ interest = "EPOLLIN"
    /\ last = <<"epoll_ctl_mod", "ok", 0>>
    /\ echoLog # <<>>

(***************************************************************************)
(* C16  Port reuse before bind: when bind() is called, and so whenever the *)
(* socket is bound, SO_REUSEPORT is already set on the socket.             *)
(***************************************************************************)
C16_ReuseBeforeBind ==
    /\ pc = "bind" => sock.reuseport
    /\ sock.bound => sock.reuseport

(***************************************************************************)
(* C17  Non-blocking before any I/O: the loop is entered, and recvfrom or  *)
(* sendto is called, only on a socket on which O_NONBLOCK has been set.    *)
(***************************************************************************)
C17_NonblockBeforeIO ==
    /\ pc \in LoopPcs => sock.nonblock
    /\ last[1] \in {"recvfrom", "sendto"} => sock.nonblock
    /\ (recvLog # <<>> \/ dests # {}) => sock.nonblock
    /\ pc \in {"bind", "set_nonblock", "epoll_create1", "epoll_ctl_add"}
         => sock.nonblock

\* a receive is about to be made on the non-blocking socket, a datagram queued
C17_Witness ==
    /\ AtRecv
    /\ sock.queue # <<>>
    /\ sock.nonblock
    /\ recvLog = <<>>

(***************************************************************************)
(* C18  Buffer bounds: the buffer never holds more than MAX_BUFSIZE bytes; *)
(* after a successful receive of n bytes, n <= MAX_BUFSIZE, datasize is    *)
(* between 0 and n, cursor + datasize = n, and the bytes a send is offered *)
(* lie inside the buffer and are bytes that receive wrote.                 *)
(***************************************************************************)
C18_BufferBounds ==
    /\ Len(buf) <= MAX_BUFSIZE
    /\ recvLog # <<>> =>
         LET n == Len(cur.data)
         IN  /\ 0 <= n /\ n <= MAX_BUFSIZE
             /\ 0 <= datasize /\ datasize <= n
             /\ 0 <= bufptr
             /\ bufptr + datasize = n
             /\ \A k \in (bufptr + 1)..(bufptr + datasize) :
                    k <= Len(buf) /\ buf[k] = cur.data[k]

\* a datagram longer than the buffer was cut to MAX_BUFSIZE bytes, and a
\* send has accepted a part of them
C18_Witness ==
    /\ Len(cur.data) = MAX_BUFSIZE
    /\ last[1] = "sendto" /\ last[2] = "ok" /\ last[3] > 0
    /\ datasize > 0
    /\ bufptr + datasize = MAX_BUFSIZE

\* the datagram in hand is an empty one
EmptyInHand == recvLog # <<>> /\ cur.data = <<>>

(***************************************************************************)
(* C19  Zero-length datagram: a successful receive of 0 bytes selects the  *)
(* writable event; the send that follows offers 0 bytes to the sender of   *)
(* the datagram and, whether it succeeds or fails with EINTR or EAGAIN,    *)
(* selects the readable event; no send for the empty datagram is made      *)
(* after another one, and no receive is made before one.                   *)
(***************************************************************************)
C19_EmptyDatagram ==
    /\ [][(RecvStep /\ last' = <<"recvfrom", "ok", 0>>)
             => /\ ev' = "EPOLLOUT"
                /\ pc' = "epoll_ctl_mod"
                /\ EmptyInHand']_vars
    /\ [][(SendStep /\ EmptyInHand)
             => /\ Offered(bufptr, datasize) = <<>>
                /\ last'[3] = 0
                /\ dests' = {<<cur.peer, SockaddrLen>>}
                /\ last'[2] \in Transient \cup {"ok"}
                     => ev' = "EPOLLIN" /\ pc' = "epoll_ctl_mod"]_vars
    /\ [](AtSend /\ EmptyInHand => dests = {})
    /\ [](AtRecv /\ EmptyInHand => dests # {})

\* the one send for an empty datagram failed with EAGAIN and the readable
\* event is about to be armed
C19_Witness ==
    /\ EmptyInHand
    /\ last = <<"sendto", "EAGAIN", 0>>
    /\ ev = "EPOLLIN"
    /\ pc = "epoll_ctl_mod"
    /\ dests = {<<cur.peer, SockaddrLen>>}

====
